---- MODULE Spec2Model ----
(***************************************************************************)
(* Order service: the create-order workflow (OrderService.create_order),   *)
(* the Product and Order aggregates and the in-memory repositories.        *)
(*                                                                         *)
(* Python objects are modelled with their identity: the product repository *)
(* maps a product id to an object reference, and the objects live in       *)
(* `objs`.  A create_order call holds a reference in its local `product`,  *)
(* and Product.reserve_stock mutates the object behind it in place.        *)
(* Prices are Decimal values with two places, modelled as integer cents.   *)
(*                                                                         *)
(* Calls of create_order interleave at the awaited repository calls; every *)
(* stretch of code between two awaits is one action.                       *)
(***************************************************************************)
EXTENDS Integers, Sequences, FiniteSets, TLC

\* ----------------------------------------------------------------- bounds
\* Number of create_order calls made in a behaviour.
NumCalls == 2
\* Items requested by all the calls of a behaviour together.
MaxItems == 2
\* Stock of the seeded products (the deployment seeds 10 and 50).
LaptopStock == 2
MouseStock == 1
\* Largest quantity passed to an aggregate method called directly.
MaxQuantity == 3
\* release_stock is not called on a product holding more than this.
StockCap == 3
\* Lines added to an Order by direct calls of add_item.
MaxLines == 2
MaxPuts == 1

\* ------------------------------------------------------- program constants
LaptopPrice == 99999
MousePrice == 2999

None == "None"

\* Product ids a request may name: two seeded products and an unknown id.
LAPTOP_ID == "P1"
MOUSE_ID == "P2"
UnknownId == "PX"
ProductIds == {LAPTOP_ID, MOUSE_ID, UnknownId}

\* Quantities a request may carry (0 stands for the non-positive ones).
Quantities == {0, 1, 2}

Customers == {"C1"}

CallIds == 1..NumCalls

\* A requested item: the (product_id, quantity) tuple of create_order.
ItemKinds == [product_id : ProductIds, quantity : Quantities]

RECURSIVE SeqsUpTo(_, _)
SeqsUpTo(S, n) ==
    IF n = 0 THEN {<<>>}
    ELSE LET shorter == SeqsUpTo(S, n - 1)
         IN  shorter \cup {Append(s, x) : s \in {t \in shorter : Len(t) = n - 1}, x \in S}

\* Sum of the quantities that the items (or order lines) `its` carry for one product.
RECURSIVE QtyFor(_, _)
QtyFor(its, product_id) ==
    IF its = <<>> THEN 0
    ELSE (IF Head(its).product_id = product_id THEN Head(its).quantity ELSE 0)
         + QtyFor(Tail(its), product_id)

VARIABLES
    _products,   \* InMemoryProductRepository._products : product id -> object reference
    objs,        \* the Product objects : reference -> fields
    _orders,     \* InMemoryOrderRepository._orders : order id -> Order
    pc,          \* per call: where create_order stands
    items,       \* per call: the `items` argument
    idx,         \* per call: position of the for loop in `items` (1-based)
    product,     \* per call: the local `product` (an object reference)
    order,       \* per call: the local `order`; the returned Order once done
    err,         \* per call: the exception raised, if any
    order_repo,  \* the class of the order repository the service was built with
    reply        \* the outcome of the latest call, when it was a direct call of an
                 \* aggregate method or a read / cancel operation of the service

vars == <<_products, objs, _orders, pc, items, idx, product, order, err, order_repo, reply>>

\* ------------------------------------------------------------ exceptions
NoError == [type |-> "None"]

ProductNotFoundError(product_id) ==
    [type |-> "ProductNotFoundError", text |-> "Product not found", product_id |-> product_id]

\* `raise InsufficientStockError(str(e)) from e`: the type changes, the message is kept.
InsufficientStockError(e) == [e EXCEPT !.type = "InsufficientStockError"]

\* ------------------------------------------------------- Product aggregate
Product(id, name, price, stock) ==
    [id |-> id, name |-> name, price |-> price, stock |-> stock]

\* Variants of reserve_stock, each with one slip:
\* the stock check left out;
reserve_stock_unchecked(p, quantity) ==
    IF quantity <= 0
    THEN [product |-> p,
          raised |-> [type |-> "ValueError", text |-> "Quantity must be positive"]]
    ELSE [product |-> [p EXCEPT !.stock = p.stock - quantity], raised |-> NoError]

\* `<=` for `<` in the stock check;
reserve_stock_off_by_one(p, quantity) ==
    IF quantity <= 0
    THEN [product |-> p,
          raised |-> [type |-> "ValueError", text |-> "Quantity must be positive"]]
    ELSE IF p.stock <= quantity
    THEN [product |-> p,
          raised |-> [type |-> "ValueError", text |-> "Insufficient stock",
                      available |-> p.stock, requested |-> quantity]]
    ELSE [product |-> [p EXCEPT !.stock = p.stock - quantity], raised |-> NoError]

\* one unit taken whatever the quantity;
reserve_stock_takes_one(p, quantity) ==
    IF quantity <= 0
    THEN [product |-> p,
          raised |-> [type |-> "ValueError", text |-> "Quantity must be positive"]]
    ELSE IF p.stock < quantity
    THEN [product |-> p,
          raised |-> [type |-> "ValueError", text |-> "Insufficient stock",
                      available |-> p.stock, requested |-> quantity]]
    ELSE [product |-> [p EXCEPT !.stock = p.stock - 1], raised |-> NoError]

\* the stock decremented before it is checked.
reserve_stock_decrement_first(p, quantity) ==
    IF quantity <= 0
    THEN [product |-> p,
          raised |-> [type |-> "ValueError", text |-> "Quantity must be positive"]]
    ELSE IF p.stock - quantity < 0
    THEN [product |-> [p EXCEPT !.stock = p.stock - quantity],
          raised |-> [type |-> "ValueError", text |-> "Insufficient stock",
                      available |-> p.stock, requested |-> quantity]]
    ELSE [product |-> [p EXCEPT !.stock = p.stock - quantity], raised |-> NoError]

\* zero accepted as a quantity.
reserve_stock_accepts_zero(p, quantity) ==
    IF quantity < 0
    THEN [product |-> p,
          raised |-> [type |-> "ValueError", text |-> "Quantity must be positive"]]
    ELSE IF p.stock < quantity
    THEN [product |-> p,
          raised |-> [type |-> "ValueError", text |-> "Insufficient stock",
                      available |-> p.stock, requested |-> quantity]]
    ELSE [product |-> [p EXCEPT !.stock = p.stock - quantity], raised |-> NoError]

\* Product.reserve_stock: the outcome of the call on product object p.
\* `product` is the object after the call, `raised` the ValueError or NoError.
reserve_stock(p, quantity) ==
    IF quantity <= 0
    THEN [product |-> p,
          raised |-> [type |-> "ValueError", text |-> "Quantity must be positive"]]
    ELSE IF p.stock < quantity
    THEN [product |-> p,
          raised |-> [type |-> "ValueError", text |-> "Insufficient stock",
                      available |-> p.stock, requested |-> quantity]]
    ELSE [product |-> [p EXCEPT !.stock = p.stock - quantity], raised |-> NoError]

\* A variant of release_stock that gives back one unit whatever the quantity.
release_stock_adds_one(p, quantity) ==
    IF quantity <= 0
    THEN [product |-> p,
          raised |-> [type |-> "ValueError", text |-> "Quantity must be positive"]]
    ELSE [product |-> [p EXCEPT !.stock = p.stock + 1], raised |-> NoError]

\* Product.release_stock
release_stock(p, quantity) ==
    IF quantity <= 0
    THEN [product |-> p,
          raised |-> [type |-> "ValueError", text |-> "Quantity must be positive"]]
    ELSE [product |-> [p EXCEPT !.stock = p.stock + quantity], raised |-> NoError]

\* --------------------------------------------------------- Order aggregate
PENDING == "PENDING"
CONFIRMED == "CONFIRMED"
CANCELLED == "CANCELLED"
DELIVERED == "DELIVERED"

\* A variant of the validation that forgets the price.
OrderItemValid_quantity_only(quantity, price) == quantity > 0

\* OrderItem.__post_init__ validation.
OrderItemValid(quantity, price) == quantity > 0 /\ price >= 0

OrderItem(product_id, product_name, quantity, price) ==
    [product_id |-> product_id, product_name |-> product_name,
     quantity |-> quantity, price |-> price]

\* OrderItem.subtotal
subtotal(item) == item.price * item.quantity

\* Order(customer_id=...): a fresh id, no items, status PENDING.
Order(id, customer_id) ==
    [id |-> id, customer_id |-> customer_id, items |-> <<>>, status |-> PENDING]

\* A variant of add_item that inserts the line at the front.
add_item_prepend(o, product_id, product_name, quantity, price) ==
    [o EXCEPT !.items = <<OrderItem(product_id, product_name, quantity, price)>> \o o.items]

\* Order.add_item (called with arguments that pass OrderItem's validation).
add_item(o, product_id, product_name, quantity, price) ==
    [o EXCEPT !.items = Append(o.items, OrderItem(product_id, product_name, quantity, price))]

\* A call of Order.add_item with any arguments: OrderItem.__post_init__ raises
\* before anything is appended.
add_item_call(o, product_id, product_name, quantity, price) ==
    IF ~OrderItemValid(quantity, price)
    THEN [order |-> o,
          raised |-> [type |-> "ValueError",
                      text |-> IF quantity <= 0 THEN "Quantity must be positive"
                               ELSE "Price cannot be negative"]]
    ELSE [order |-> add_item(o, product_id, product_name, quantity, price),
          raised |-> NoError]

\* A variant of confirm that does not look at the status.
confirm_any_status(o) ==
    IF o.items = <<>>
    THEN [order |-> o,
          raised |-> [type |-> "ValueError", text |-> "Cannot confirm empty order"]]
    ELSE [order |-> [o EXCEPT !.status = CONFIRMED], raised |-> NoError]

\* Order.confirm
confirm(o) ==
    IF o.items = <<>>
    THEN [order |-> o,
          raised |-> [type |-> "ValueError", text |-> "Cannot confirm empty order"]]
    ELSE IF o.status # PENDING
    THEN [order |-> o,
          raised |-> [type |-> "ValueError", text |-> "Cannot confirm order with status",
                      status |-> o.status]]
    ELSE [order |-> [o EXCEPT !.status = CONFIRMED], raised |-> NoError]

\* A variant of cancel that accepts an order already cancelled.
cancel_again(o) ==
    IF o.status = DELIVERED
    THEN [order |-> o,
          raised |-> [type |-> "ValueError", text |-> "Cannot cancel delivered order"]]
    ELSE [order |-> [o EXCEPT !.status = CANCELLED], raised |-> NoError]

\* Order.cancel
cancel(o) ==
    IF o.status = DELIVERED
    THEN [order |-> o,
          raised |-> [type |-> "ValueError", text |-> "Cannot cancel delivered order"]]
    ELSE IF o.status = CANCELLED
    THEN [order |-> o,
          raised |-> [type |-> "ValueError", text |-> "Order already cancelled"]]
    ELSE [order |-> [o EXCEPT !.status = CANCELLED], raised |-> NoError]

RECURSIVE SumSubtotals(_)
SumSubtotals(its) ==
    IF its = <<>> THEN 0 ELSE subtotal(Head(its)) + SumSubtotals(Tail(its))

\* Order.calculate_total
calculate_total(o) == SumSubtotals(o.items)

\* ------------------------------------------------------------ repositories
\* InMemoryProductRepository.get_by_id: dict.get
product_get_by_id(products, product_id) ==
    IF product_id \in DOMAIN products THEN products[product_id] ELSE None

\* InMemoryProductRepository.save: self._products[product.id] = product
product_save(products, id, ref) ==
    [k \in DOMAIN products \cup {id} |-> IF k = id THEN ref ELSE products[k]]

\* InMemoryOrderRepository.save: self._orders[order.id] = order
order_save(orders, o) ==
    [k \in DOMAIN orders \cup {o.id} |-> IF k = o.id THEN o ELSE orders[k]]

\* A variant of get_by_id that answers an unknown id with some stored order.
order_get_by_id_any(orders, order_id) ==
    IF order_id \in DOMAIN orders THEN <<orders[order_id]>>
    ELSE IF DOMAIN orders # {} THEN <<orders[CHOOSE k \in DOMAIN orders : TRUE]>>
    ELSE <<>>

\* InMemoryOrderRepository.get_by_id and BaseRepository.get_by_id: dict.get.
\* The Order | None that is returned is a sequence of at most one order.
order_get_by_id(orders, order_id) ==
    IF order_id \in DOMAIN orders THEN <<orders[order_id]>> ELSE <<>>

\* The keys of a dict in insertion order: order ids are handed out in the
\* order the orders are created and saved.
RECURSIVE KeysUpTo(_, _)
KeysUpTo(orders, n) ==
    IF n = 0 THEN <<>>
    ELSE IF n \in DOMAIN orders THEN Append(KeysUpTo(orders, n - 1), n)
    ELSE KeysUpTo(orders, n - 1)

\* BaseRepository.get_all: list(self._storage.values())
order_get_all(orders) ==
    LET keys == KeysUpTo(orders, NumCalls)
    IN  [i \in 1..Len(keys) |-> orders[keys[i]]]

\* A variant of delete that reports the removal and leaves the entry.
order_delete_keeps(orders, order_id) ==
    IF order_id \in DOMAIN orders
    THEN [storage |-> orders, result |-> TRUE]
    ELSE [storage |-> orders, result |-> FALSE]

\* BaseRepository.delete
order_delete(orders, order_id) ==
    IF order_id \in DOMAIN orders
    THEN [storage |-> [k \in DOMAIN orders \ {order_id} |-> orders[k]], result |-> TRUE]
    ELSE [storage |-> orders, result |-> FALSE]

\* The two classes an order repository can be built from, and their methods:
\* InMemoryOrderRepository defines save and get_by_id only.
BaseRepo == "BaseRepository"
OrderRepoClasses == {"InMemoryOrderRepository", BaseRepo}

Methods(class) ==
    IF class = BaseRepo THEN {"save", "get_by_id", "get_all", "delete"}
    ELSE {"save", "get_by_id"}

\* What Python raises for a call of a method the object does not have.
AttributeError(class, attribute) ==
    [type |-> "AttributeError", text |-> "object has no attribute",
     class |-> class, attribute |-> attribute]

\* ------------------------------------------------------------------- Init
SeededIds == {LAPTOP_ID, MOUSE_ID}

\* The state after start-up: the lifespan hook has seeded the catalog.
SeedRefs == {"o1", "o2"}

SeedProduct(ref) ==
    IF ref = "o1" THEN Product(LAPTOP_ID, "Laptop", LaptopPrice, LaptopStock)
    ELSE Product(MOUSE_ID, "Mouse", MousePrice, MouseStock)

NoOrder == [id |-> 0, customer_id |-> None, items |-> <<>>, status |-> PENDING]

NoReply == [op |-> "none"]

\* api/dependencies.py builds the service with these repositories.
WiredOrderRepo == "InMemoryOrderRepository"

\* Everything but the choice of the order repository.
InitState ==
    /\ objs = [r \in SeedRefs |-> SeedProduct(r)]
    /\ _products = [p \in {LAPTOP_ID, MOUSE_ID} |-> IF p = LAPTOP_ID THEN "o1" ELSE "o2"]
    /\ _orders = <<>>
    /\ pc = [c \in CallIds |-> "idle"]
    /\ items = [c \in CallIds |-> <<>>]
    /\ idx = [c \in CallIds |-> 0]
    /\ product = [c \in CallIds |-> None]
    /\ order = [c \in CallIds |-> NoOrder]
    /\ err = [c \in CallIds |-> NoError]
    /\ reply = NoReply

Init ==
    /\ InitState
    /\ order_repo = WiredOrderRepo

\* ------------------------------------------------- create_order, by steps
RECURSIVE TotalLen(_, _)
TotalLen(f, n) == IF n = 0 THEN 0 ELSE Len(f[n]) + TotalLen(f, n - 1)

\* After one iteration (or none): the next item's lookup, or the order's save.
NextStep(its, i) == IF i <= Len(its) THEN "get" ELSE "save_order"

\* The requests of at most n items, for every n the bound allows.
Requests == [n \in 0..MaxItems |-> SeqsUpTo(ItemKinds, n)]

\* A variant of Call that persists the order as soon as it is constructed.
Call_persists_early(c) ==
    /\ pc[c] = "idle"
    /\ \A d \in CallIds : d < c => pc[d] # "idle"
    /\ \E customer_id \in Customers,
          its \in Requests[MaxItems - TotalLen(items, NumCalls)] :
           /\ items' = [items EXCEPT ![c] = its]
           /\ order' = [order EXCEPT ![c] = Order(c, customer_id)]
           /\ _orders' = order_save(_orders, Order(c, customer_id))
           /\ idx' = [idx EXCEPT ![c] = 1]
           /\ pc' = [pc EXCEPT ![c] = NextStep(its, 1)]
    /\ reply' = NoReply
    /\ UNCHANGED <<_products, objs, product, err, order_repo>>

\* create_order is called with some customer and some list of items:
\* `order = Order(customer_id=customer_id)`, then the loop is entered.  Call
\* ids (and the fresh order ids) are handed out in the order the calls begin.
Call(c) ==
    /\ pc[c] = "idle"
    /\ \A d \in CallIds : d < c => pc[d] # "idle"
    /\ \E customer_id \in Customers,
          its \in Requests[MaxItems - TotalLen(items, NumCalls)] :
           /\ items' = [items EXCEPT ![c] = its]
           /\ order' = [order EXCEPT ![c] = Order(c, customer_id)]
           /\ idx' = [idx EXCEPT ![c] = 1]
           /\ pc' = [pc EXCEPT ![c] = NextStep(its, 1)]
    /\ reply' = NoReply
    /\ UNCHANGED <<_products, objs, _orders, product, err, order_repo>>

\* `product = await self._product_repo.get_by_id(product_id)` and the
\* `if not product: raise ProductNotFoundError`.
GetProduct(c) ==
    /\ pc[c] = "get"
    /\ LET product_id == items[c][idx[c]].product_id
           found == product_get_by_id(_products, product_id)
       IN  IF found = None
           THEN /\ err' = [err EXCEPT ![c] = ProductNotFoundError(product_id)]
                /\ pc' = [pc EXCEPT ![c] = "failed"]
                /\ UNCHANGED product
           ELSE /\ product' = [product EXCEPT ![c] = found]
                /\ pc' = [pc EXCEPT ![c] = "reserve"]
                /\ UNCHANGED err
    /\ UNCHANGED <<_products, objs, _orders, items, idx, order, order_repo, reply>>

\* A variant of Reserve that, when the reservation is refused, releases what
\* the call reserved for its earlier items.
Reserve_rolls_back(c) ==
    /\ pc[c] = "reserve"
    /\ LET quantity == items[c][idx[c]].quantity
           r == reserve_stock(objs[product[c]], quantity)
           p == r.product
       IN  IF r.raised # NoError
           THEN /\ objs' = [ref \in DOMAIN objs |->
                               [objs[ref] EXCEPT !.stock = @ + QtyFor(order[c].items, objs[ref].id)]]
                /\ err' = [err EXCEPT ![c] = InsufficientStockError(r.raised)]
                /\ pc' = [pc EXCEPT ![c] = "failed"]
                /\ UNCHANGED order
           ELSE /\ objs' = [objs EXCEPT ![product[c]] = p]
                /\ order' = [order EXCEPT ![c] =
                                add_item(order[c], p.id, p.name, quantity, p.price)]
                /\ pc' = [pc EXCEPT ![c] = "save"]
                /\ UNCHANGED err
    /\ UNCHANGED <<_products, _orders, items, idx, product, order_repo, reply>>

\* `product.reserve_stock(quantity)` inside the try, then `order.add_item(...)`:
\* the code between the await of get_by_id and the await of save.
Reserve(c) ==
    /\ pc[c] = "reserve"
    /\ LET quantity == items[c][idx[c]].quantity
           r == reserve_stock(objs[product[c]], quantity)
           p == r.product
       IN  /\ objs' = [objs EXCEPT ![product[c]] = p]
           /\ IF r.raised # NoError
              THEN /\ err' = [err EXCEPT ![c] = InsufficientStockError(r.raised)]
                   /\ pc' = [pc EXCEPT ![c] = "failed"]
                   /\ UNCHANGED order
              ELSE IF ~OrderItemValid(quantity, p.price)
              THEN /\ err' = [err EXCEPT ![c] =
                                 [type |-> "ValueError", text |-> "Invalid order item"]]
                   /\ pc' = [pc EXCEPT ![c] = "failed"]
                   /\ UNCHANGED order
              ELSE /\ order' = [order EXCEPT ![c] =
                                   add_item(order[c], p.id, p.name, quantity, p.price)]
                   /\ pc' = [pc EXCEPT ![c] = "save"]
                   /\ UNCHANGED err
    /\ UNCHANGED <<_products, _orders, items, idx, product, order_repo, reply>>

\* `await self._product_repo.save(product)`, then the loop moves on.
SaveProduct(c) ==
    /\ pc[c] = "save"
    /\ _products' = product_save(_products, objs[product[c]].id, product[c])
    /\ idx' = [idx EXCEPT ![c] = idx[c] + 1]
    /\ pc' = [pc EXCEPT ![c] = NextStep(items[c], idx[c] + 1)]
    /\ UNCHANGED <<objs, _orders, items, product, order, err, order_repo, reply>>

\* `await self._order_repo.save(order)` and `return order`.
SaveOrder(c) ==
    /\ pc[c] = "save_order"
    /\ _orders' = order_save(_orders, order[c])
    /\ pc' = [pc EXCEPT ![c] = "done"]
    /\ UNCHANGED <<_products, objs, items, idx, product, order, err, order_repo, reply>>

Next ==
    \/ \E c \in CallIds : Call(c)
    \/ \E c \in CallIds : GetProduct(c)
    \/ \E c \in CallIds : Reserve(c)
    \/ \E c \in CallIds : SaveProduct(c)
    \/ \E c \in CallIds : SaveOrder(c)

Spec == Init /\ [][Next]_vars

\* ------------------------------------- the Product aggregate, called directly
\* Quantities handed to reserve_stock / release_stock.
UnitQuantities == -1..MaxQuantity

\* product.reserve_stock(quantity) on a Product object of the catalog.
ReserveStock(ref) ==
    /\ \E quantity \in UnitQuantities :
           LET r == reserve_stock(objs[ref], quantity)
           IN  /\ objs' = [objs EXCEPT ![ref] = r.product]
               /\ reply' = [op |-> "reserve_stock", ref |-> ref,
                            quantity |-> quantity, raised |-> r.raised]
    /\ UNCHANGED <<_products, _orders, pc, items, idx, product, order, err, order_repo>>

\* product.release_stock(quantity) on a Product object of the catalog.
ReleaseStock(ref) ==
    /\ \E quantity \in UnitQuantities :
           LET r == release_stock(objs[ref], quantity)
           IN  /\ objs[ref].stock + quantity <= StockCap
               /\ objs' = [objs EXCEPT ![ref] = r.product]
               /\ reply' = [op |-> "release_stock", ref |-> ref,
                            quantity |-> quantity, raised |-> r.raised]
    /\ UNCHANGED <<_products, _orders, pc, items, idx, product, order, err, order_repo>>

NextProduct ==
    \/ \E ref \in SeedRefs : ReserveStock(ref)
    \/ \E ref \in SeedRefs : ReleaseStock(ref)

SpecProduct == Init /\ [][NextProduct]_vars

\* --------------------------------------- the Order aggregate, called directly
\* The Order objects whose methods are called directly.
UnitOrders == {1}

\* Prices handed to add_item (in cents; -1 is a negative Decimal).
UnitPrices == {-1, 0, MousePrice}

UnchangedByOrderCall ==
    UNCHANGED <<_products, objs, _orders, pc, items, idx, product, err, order_repo>>

\* order = Order(customer_id=...)
NewOrder(c) ==
    /\ order[c] = NoOrder
    /\ \E customer_id \in Customers :
           /\ order' = [order EXCEPT ![c] = Order(c, customer_id)]
           /\ reply' = [op |-> "Order", order_id |-> c, raised |-> NoError]
    /\ UnchangedByOrderCall

\* order.add_item(product_id, product_name, quantity, price)
AddItem(c) ==
    /\ order[c] # NoOrder
    /\ Len(order[c].items) < MaxLines
    /\ \E quantity \in UnitQuantities, price \in UnitPrices :
           LET r == add_item_call(order[c], MOUSE_ID, "Mouse", quantity, price)
           IN  /\ order' = [order EXCEPT ![c] = r.order]
               /\ reply' = [op |-> "add_item", order_id |-> c, quantity |-> quantity,
                            price |-> price, raised |-> r.raised]
    /\ UnchangedByOrderCall

\* order.confirm()
Confirm(c) ==
    /\ order[c] # NoOrder
    /\ LET r == confirm(order[c])
       IN  /\ order' = [order EXCEPT ![c] = r.order]
           /\ reply' = [op |-> "confirm", order_id |-> c, raised |-> r.raised]
    /\ UnchangedByOrderCall

\* order.cancel()
Cancel(c) ==
    /\ order[c] # NoOrder
    /\ LET r == cancel(order[c])
       IN  /\ order' = [order EXCEPT ![c] = r.order]
           /\ reply' = [op |-> "cancel", order_id |-> c, raised |-> r.raised]
    /\ UnchangedByOrderCall

\* The fulfilment process outside the service marks an order delivered.
Deliver(c) ==
    /\ order[c] # NoOrder
    /\ order[c].status # DELIVERED
    /\ order' = [order EXCEPT ![c].status = DELIVERED]
    /\ reply' = [op |-> "deliver", order_id |-> c, raised |-> NoError]
    /\ UnchangedByOrderCall

NextOrder ==
    \/ \E c \in UnitOrders : NewOrder(c)
    \/ \E c \in UnitOrders : AddItem(c)
    \/ \E c \in UnitOrders : Confirm(c)
    \/ \E c \in UnitOrders : Cancel(c)
    \/ \E c \in UnitOrders : Deliver(c)

SpecOrder == Init /\ [][NextOrder]_vars

\* The same calls without the outside fulfilment: only the order's own
\* methods act on it.
NextOrderMethods ==
    \/ \E c \in UnitOrders : NewOrder(c)
    \/ \E c \in UnitOrders : AddItem(c)
    \/ \E c \in UnitOrders : Confirm(c)
    \/ \E c \in UnitOrders : Cancel(c)

SpecOrderMethods == Init /\ [][NextOrderMethods]_vars

\* ------------------------------- the read / list / cancel calls of the service
\* OrderService(order_repo, product_repo): the service takes any order
\* repository; the repository classes of the code base are the two below.
InitService ==
    /\ InitState
    /\ order_repo \in OrderRepoClasses

\* The ids the calls are made with; 0 is the id of no order.
OrderIds == 0..NumCalls

\* No await of the in-memory repositories suspends, so on the event loop a call
\* of the service runs to its end before the next call begins.
NoCallRunning == \A c \in CallIds : pc[c] \in {"idle", "done", "failed"}

\* create_order is called while no other call of the service is running.
CallInTurn(c) == NoCallRunning /\ Call(c)

UnchangedByServiceCall ==
    UNCHANGED <<_products, objs, pc, items, idx, product, order, err, order_repo>>

\* get_order_by_id: `return await self._order_repo.get_by_id(order_id)`
GetOrderById(order_id) ==
    /\ NoCallRunning
    /\ IF "get_by_id" \in Methods(order_repo)
       THEN reply' = [op |-> "get_order_by_id", order_id |-> order_id,
                      result |-> order_get_by_id(_orders, order_id), raised |-> NoError]
       ELSE reply' = [op |-> "get_order_by_id", order_id |-> order_id,
                      result |-> <<>>, raised |-> AttributeError(order_repo, "get_by_id")]
    /\ UNCHANGED _orders
    /\ UnchangedByServiceCall

\* get_all_orders: `return await self._order_repo.get_all()`
GetAllOrders ==
    /\ NoCallRunning
    /\ IF "get_all" \in Methods(order_repo)
       THEN reply' = [op |-> "get_all_orders",
                      result |-> order_get_all(_orders), raised |-> NoError]
       ELSE reply' = [op |-> "get_all_orders",
                      result |-> <<>>, raised |-> AttributeError(order_repo, "get_all")]
    /\ UNCHANGED _orders
    /\ UnchangedByServiceCall

\* A variant of cancel_order that gives the deleted order's units back.
CancelOrder_restocks(order_id) ==
    /\ NoCallRunning
    /\ IF "delete" \in Methods(order_repo)
       THEN LET r == order_delete(_orders, order_id)
            IN  /\ _orders' = r.storage
                /\ objs' = IF r.result
                           THEN [ref \in DOMAIN objs |->
                                    [objs[ref] EXCEPT !.stock =
                                        @ + QtyFor(_orders[order_id].items, objs[ref].id)]]
                           ELSE objs
                /\ reply' = [op |-> "cancel_order", order_id |-> order_id,
                             result |-> <<r.result>>, raised |-> NoError]
       ELSE /\ reply' = [op |-> "cancel_order", order_id |-> order_id,
                         result |-> <<>>, raised |-> AttributeError(order_repo, "delete")]
            /\ UNCHANGED <<_orders, objs>>
    /\ UNCHANGED <<_products, pc, items, idx, product, order, err, order_repo>>

\* cancel_order: `return await self._order_repo.delete(order_id)`
cancel_order(order_id) ==
    /\ IF "delete" \in Methods(order_repo)
       THEN LET r == order_delete(_orders, order_id)
            IN  /\ _orders' = r.storage
                /\ reply' = [op |-> "cancel_order", order_id |-> order_id,
                             result |-> <<r.result>>, raised |-> NoError]
       ELSE /\ reply' = [op |-> "cancel_order", order_id |-> order_id,
                         result |-> <<>>, raised |-> AttributeError(order_repo, "delete")]
            /\ UNCHANGED _orders
    /\ UnchangedByServiceCall

\* cancel_order, called while no other call of the service is running.
CancelOrder(order_id) ==
    /\ NoCallRunning
    /\ cancel_order(order_id)

NextService ==
    \/ \E c \in CallIds : CallInTurn(c)
    \/ \E c \in CallIds : GetProduct(c)
    \/ \E c \in CallIds : Reserve(c)
    \/ \E c \in CallIds : SaveProduct(c)
    \/ \E c \in CallIds : SaveOrder(c)
    \/ \E order_id \in OrderIds : GetOrderById(order_id)
    \/ GetAllOrders
    \/ \E order_id \in OrderIds : CancelOrder(order_id)

SpecService == InitService /\ [][NextService]_vars

\* --------------------------- cancel_order and the transitions of stored orders
\* order.confirm() on a stored order (the object get_order_by_id hands out is
\* the stored one, and the one create_order returned).
ConfirmStored(order_id) ==
    /\ NoCallRunning
    /\ order_id \in DOMAIN _orders
    /\ LET r == confirm(_orders[order_id])
       IN  /\ _orders' = [_orders EXCEPT ![order_id] = r.order]
           /\ order' = [order EXCEPT ![order_id] = r.order]
           /\ reply' = [op |-> "confirm", order_id |-> order_id, raised |-> r.raised]
    /\ UNCHANGED <<_products, objs, pc, items, idx, product, err, order_repo>>

\* order.cancel() on a stored order.
CancelStored(order_id) ==
    /\ NoCallRunning
    /\ order_id \in DOMAIN _orders
    /\ LET r == cancel(_orders[order_id])
       IN  /\ _orders' = [_orders EXCEPT ![order_id] = r.order]
           /\ order' = [order EXCEPT ![order_id] = r.order]
           /\ reply' = [op |-> "cancel", order_id |-> order_id, raised |-> r.raised]
    /\ UNCHANGED <<_products, objs, pc, items, idx, product, err, order_repo>>

NextCancel ==
    \/ \E c \in CallIds : CallInTurn(c)
    \/ \E c \in CallIds : GetProduct(c)
    \/ \E c \in CallIds : Reserve(c)
    \/ \E c \in CallIds : SaveProduct(c)
    \/ \E c \in CallIds : SaveOrder(c)
    \/ \E order_id \in OrderIds : CancelOrder(order_id)
    \/ \E order_id \in CallIds : ConfirmStored(order_id)
    \/ \E order_id \in CallIds : CancelStored(order_id)

SpecCancel == InitService /\ [][NextCancel]_vars

\* ---------------------------------------------- the catalog, put to directly
\* The references of the Product objects built after start-up, in the order
\* they are built.
PutRefs == <<"o3", "o4", "o5">>

\* What a product is renamed and repriced to (cents).
NewNames == {"Renamed"}
NewPrices == {1999}

Puts == Cardinality(DOMAIN objs) - Cardinality(SeedRefs)

\* A variant of the put that also rewrites the lines of the stored orders.
CatalogPut_cascades(product_id) ==
    /\ Puts < MaxPuts
    /\ Puts < Len(PutRefs)
    /\ \E name \in NewNames, price \in NewPrices :
           LET ref == PutRefs[Puts + 1]
               old == objs[_products[product_id]]
               rewritten(line) ==
                   IF line.product_id = product_id
                   THEN [line EXCEPT !.product_name = name, !.price = price]
                   ELSE line
           IN  /\ objs' = [r \in DOMAIN objs \cup {ref} |->
                              IF r = ref THEN Product(product_id, name, price, old.stock)
                              ELSE objs[r]]
               /\ _products' = product_save(_products, product_id, ref)
               /\ _orders' = [id \in DOMAIN _orders |->
                                 [_orders[id] EXCEPT !.items =
                                     [i \in 1..Len(@) |-> rewritten(@[i])]]]
    /\ reply' = [op |-> "put", product_id |-> product_id, raised |-> NoError]
    /\ UNCHANGED <<pc, items, idx, product, order, err, order_repo>>

\* product_repo.save(Product(id=product_id, name=..., price=..., stock=...)):
\* a new Product object, with a new name and price and the stock the catalog
\* shows, replaces the one stored under product_id.
CatalogPut(product_id) ==
    /\ Puts < MaxPuts
    /\ Puts < Len(PutRefs)
    /\ \E name \in NewNames, price \in NewPrices :
           LET ref == PutRefs[Puts + 1]
               old == objs[_products[product_id]]
           IN  /\ objs' = [r \in DOMAIN objs \cup {ref} |->
                              IF r = ref THEN Product(product_id, name, price, old.stock)
                              ELSE objs[r]]
               /\ _products' = product_save(_products, product_id, ref)
    /\ reply' = [op |-> "put", product_id |-> product_id, raised |-> NoError]
    /\ UNCHANGED <<_orders, pc, items, idx, product, order, err, order_repo>>

NextCatalog ==
    \/ \E c \in CallIds : CallInTurn(c)
    \/ \E c \in CallIds : GetProduct(c)
    \/ \E c \in CallIds : Reserve(c)
    \/ \E c \in CallIds : SaveProduct(c)
    \/ \E c \in CallIds : SaveOrder(c)
    \/ \E product_id \in SeededIds : CatalogPut(product_id)

SpecCatalog == Init /\ [][NextCatalog]_vars

\* ----------------------------- create_order and cancel_order, interleaved
\* create_order calls interleave at their awaits; cancel_order is called, with
\* the id of an order a call has made or will make, whenever no create_order
\* call is under way (it touches the Order Store only, which a create_order
\* call touches in its last step only).
NextAccounting ==
    \/ \E c \in CallIds : Call(c)
    \/ \E c \in CallIds : GetProduct(c)
    \/ \E c \in CallIds : Reserve(c)
    \/ \E c \in CallIds : SaveProduct(c)
    \/ \E c \in CallIds : SaveOrder(c)
    \/ \E order_id \in CallIds : CancelOrder(order_id)

SpecAccounting == InitService /\ [][NextAccounting]_vars

\* ============================================================== properties
\* What the catalog was seeded with.
SeedStock(product_id) == IF product_id = LAPTOP_ID THEN LaptopStock ELSE MouseStock
SeedPrice(product_id) == IF product_id = LAPTOP_ID THEN LaptopPrice ELSE MousePrice

\* get(product_id).stock: what a catalog lookup shows.
Stock(product_id) == objs[_products[product_id]].stock

RECURSIVE SumOver(_, _)
SumOver(f, n) == IF n = 0 THEN 0 ELSE f[n] + SumOver(f, n - 1)

Min(a, b) == IF a < b THEN a ELSE b

Finished(c) == pc[c] \in {"done", "failed"}

\* The item a failed call failed at.
FailedItem(c) == items[c][idx[c]]

\* ---- C1
\* C1: under every interleaving of create_order calls, every product's stock
\* is >= 0, and the reservations that passed the stock check (the lines the
\* calls have added to their orders) never add up to more than the stock
\* the product had.
C1_NoOversell ==
    \A p \in SeededIds :
        /\ Stock(p) >= 0
        /\ SumOver([c \in CallIds |-> QtyFor(order[c].items, p)], NumCalls) <= SeedStock(p)

\* Two calls race for the last units of a product: one has reserved and not
\* yet saved, the other's reservation has been refused.
C1_Witness ==
    \E c, d \in CallIds :
        /\ c # d
        /\ pc[c] = "save"
        /\ pc[d] = "failed"
        /\ err[d].text = "Insufficient stock"
        /\ FailedItem(d).product_id = items[c][idx[c]].product_id

\* ---- C2
AllSingleUnit(p) ==
    \A c \in CallIds :
        /\ Finished(c)
        /\ items[c] = <<[product_id |-> p, quantity |-> 1]>>

\* C2: when every call asks for one unit of the same product, then once all
\* have finished as many have succeeded as the stock allowed, each success
\* took exactly one unit (stock N, N calls: final stock 0), and the others
\* failed with InsufficientStock.
C2_NoLostDecrement ==
    \A p \in SeededIds :
        AllSingleUnit(p) =>
            LET succeeded == {c \in CallIds : pc[c] = "done"}
            IN  /\ Cardinality(succeeded) = Min(NumCalls, SeedStock(p))
                /\ Stock(p) = SeedStock(p) - Cardinality(succeeded)
                /\ \A c \in CallIds \ succeeded :
                       /\ err[c].type = "InsufficientStockError"
                       /\ err[c].text = "Insufficient stock"

\* As many single-unit calls as the product had stock, all done, stock 0.
C2_Witness ==
    \E p \in SeededIds :
        /\ AllSingleUnit(p)
        /\ SeedStock(p) = NumCalls
        /\ \A c \in CallIds : pc[c] = "done"
        /\ Stock(p) = 0

\* ---- C3
RECURSIVE ExpectedTotal(_)
ExpectedTotal(its) ==
    IF its = <<>> THEN 0
    ELSE SeedPrice(Head(its).product_id) * Head(its).quantity + ExpectedTotal(Tail(its))

\* C3: a call that succeeded returned, and persisted, a PENDING order with
\* one line per requested item, in input order, carrying the item's product
\* id and quantity, and calculate_total is the sum of catalog price times
\* quantity over the requested items.
C3_OrderMatchesRequest ==
    \A c \in CallIds :
        pc[c] = "done" =>
            /\ order[c].id \in DOMAIN _orders
            /\ _orders[order[c].id] = order[c]
            /\ order[c].status = PENDING
            /\ Len(order[c].items) = Len(items[c])
            /\ \A i \in 1..Len(items[c]) :
                   /\ order[c].items[i].product_id = items[c][i].product_id
                   /\ order[c].items[i].quantity = items[c][i].quantity
            /\ calculate_total(order[c]) = ExpectedTotal(items[c])

\* A successful order of two lines for two different products.
C3_Witness ==
    \E c \in CallIds :
        /\ pc[c] = "done"
        /\ Len(items[c]) = 2
        /\ items[c][1].product_id # items[c][2].product_id
        /\ items[c][2].quantity = 2

\* ---- C4
\* C4: when no call is in flight and none has failed, each product's stock
\* is its seeded stock less the quantities of the lines of the created
\* orders for that product (so a product no order names is unchanged).
C4_StockDeducted ==
    (\A c \in CallIds : pc[c] \in {"idle", "done"}) =>
        \A p \in SeededIds :
            Stock(p) = SeedStock(p)
                       - SumOver([c \in CallIds |-> QtyFor(order[c].items, p)], NumCalls)

\* One order of two units of one product has been created; the other
\* product is untouched.
C4_Witness ==
    /\ \A c \in CallIds : pc[c] \in {"idle", "done"}
    /\ \E c \in CallIds, p \in SeededIds :
           /\ pc[c] = "done"
           /\ QtyFor(order[c].items, p) = 2
           /\ Stock(p) = SeedStock(p) - 2
           /\ \A q \in SeededIds \ {p} : Stock(q) = SeedStock(q)

\* ---- C5
\* C5: the Order Store holds orders of successful calls only: the order of a
\* call that failed (or has not finished) is not in it.
C5_FailedCallStoresNothing ==
    /\ DOMAIN _orders \subseteq CallIds
    /\ \A c \in CallIds : pc[c] # "done" => c \notin DOMAIN _orders

\* A call failed at its second item, with one line already in its order.
C5_Witness ==
    \E c \in CallIds :
        /\ pc[c] = "failed"
        /\ idx[c] = 2
        /\ Len(order[c].items) = 1
        /\ order[c].id \notin DOMAIN _orders

\* ---- C6
\* The number of leading items of call c whose reservation has been applied.
Applied(c) ==
    IF pc[c] = "idle" THEN 0
    ELSE IF pc[c] = "save" THEN idx[c]
    ELSE idx[c] - 1

\* C6: the stock of a product is always its seeded stock less the
\* quantities of the items each call has got past; for a call that failed at
\* item k these are the items 1..k-1, which stay deducted, and nothing after
\* item k is processed (the call stays at k with k-1 lines).
C6_NoRollback ==
    /\ \A p \in SeededIds :
           Stock(p) = SeedStock(p)
                      - SumOver([c \in CallIds |->
                                    QtyFor(SubSeq(items[c], 1, Applied(c)), p)], NumCalls)
    /\ \A c \in CallIds : pc[c] = "failed" => Len(order[c].items) = idx[c] - 1

\* A call has failed at item 2 and the stock it took for item 1 is still gone.
C6_Witness ==
    \E c \in CallIds :
        /\ pc[c] = "failed"
        /\ idx[c] = 2
        /\ Len(items[c]) = 2
        /\ \A d \in CallIds \ {c} : pc[d] = "idle"
        /\ Stock(items[c][1].product_id)
             = SeedStock(items[c][1].product_id) - items[c][1].quantity

\* ---- C7
\* C7: a call whose first item asks for more than the stock there is fails at
\* that item with InsufficientStock (carrying the stock available and the
\* quantity requested), and no step the call takes up to and including the
\* failure changes the stock of any product.
C7_FirstItemShortfall ==
    [][\A c \in CallIds :
          /\ ( /\ pc[c] = "reserve"
               /\ pc'[c] # "reserve"
               /\ idx[c] = 1
               /\ items[c][1].quantity > objs[product[c]].stock )
             => /\ pc'[c] = "failed"
                /\ err'[c].type = "InsufficientStockError"
                /\ err'[c].text = "Insufficient stock"
                /\ err'[c].available = objs[product[c]].stock
                /\ err'[c].requested = items[c][1].quantity
                /\ objs' = objs
                /\ _products' = _products
          /\ ( /\ pc'[c] # pc[c]
               /\ idx'[c] = 1
               /\ pc'[c] \in {"get", "reserve", "failed"} )
             => /\ objs' = objs
                /\ _products' = _products
      ]_vars

\* The only call made asked for two units of a product with less stock; it
\* has failed and every product has its seeded stock.
C7_Witness ==
    \E c \in CallIds :
        /\ pc[c] = "failed"
        /\ idx[c] = 1
        /\ err[c].text = "Insufficient stock"
        /\ err[c].available < err[c].requested
        /\ \A d \in CallIds \ {c} : pc[d] = "idle"
        /\ \A p \in SeededIds : Stock(p) = SeedStock(p)

\* ---- C8
\* C8: the error of a failed call names the item it failed at:
\* ProductNotFound(product id) when the product is not in the catalog, and
\* InsufficientStock(product id, available, requested), with the item's
\* product id and quantity, when the item asked for a positive quantity of a
\* catalog product (an item with quantity <= 0 is the subject of C9).
C8_ErrorIdentifiesItem ==
    \A c \in CallIds :
        pc[c] = "failed" =>
            IF FailedItem(c).product_id \notin DOMAIN _products
            THEN /\ err[c].type = "ProductNotFoundError"
                 /\ err[c].product_id = FailedItem(c).product_id
            ELSE FailedItem(c).quantity > 0 =>
                 /\ err[c].type = "InsufficientStockError"
                 /\ {"product_id", "available", "requested"} \subseteq DOMAIN err[c]
                 /\ err[c].product_id = FailedItem(c).product_id
                 /\ err[c].requested = FailedItem(c).quantity

\* ---- C9
\* C9: InsufficientStock is reported only for a positive quantity that
\* exceeds the stock; an item with quantity <= 0 is rejected with another
\* kind of error (InvalidQuantity).
C9_InvalidQuantityDistinct ==
    \A c \in CallIds :
        (pc[c] = "failed" /\ err[c].type = "InsufficientStockError")
            => FailedItem(c).quantity > 0

\* ---- C10
\* C10: no order in the Order Store has zero lines.
C10_NoEmptyOrderStored ==
    \A id \in DOMAIN _orders : Len(_orders[id].items) > 0

\* ---- C11
\* C11: reserve_stock(q) on a product with stock s: for 0 < q <= s it
\* succeeds and the stock becomes s - q; for q > s it fails with the
\* insufficient-stock error carrying available = s and requested = q, and
\* the stock stays s.
C11_ReserveStock ==
    [][reply'.op = "reserve_stock" =>
          LET ref == reply'.ref
              q == reply'.quantity
              s == objs[ref].stock
          IN  /\ (0 < q /\ q <= s) =>
                     /\ reply'.raised = NoError
                     /\ objs'[ref].stock = s - q
              /\ q > s =>
                     /\ reply'.raised.text = "Insufficient stock"
                     /\ reply'.raised.available = s
                     /\ reply'.raised.requested = q
                     /\ objs'[ref].stock = s
      ]_vars

\* reserve_stock has taken the whole stock of a product (q = s = 2).
C11_Witness ==
    /\ reply.op = "reserve_stock"
    /\ reply.quantity = 2
    /\ reply.raised = NoError
    /\ objs[reply.ref].stock = 0

\* ---- C12
\* C12: reserve_stock(q) with q <= 0 fails with the invalid-quantity error
\* ("Quantity must be positive"), whatever the stock, and changes no stock.
C12_ReserveNonPositive ==
    [][(reply'.op = "reserve_stock" /\ reply'.quantity <= 0) =>
          /\ reply'.raised = [type |-> "ValueError", text |-> "Quantity must be positive"]
          /\ objs' = objs
      ]_vars

\* reserve_stock(-1) has been refused on a product that has stock.
C12_Witness ==
    /\ reply.op = "reserve_stock"
    /\ reply.quantity = -1
    /\ reply.raised.text = "Quantity must be positive"
    /\ objs[reply.ref].stock > 0

\* ---- C13
\* C13: confirm() succeeds exactly when the order is PENDING and has at
\* least one line, and then the status is CONFIRMED; otherwise (no line, or
\* any other status, so also after a successful confirm) it raises and the
\* order is left as it was.
C13_Confirm ==
    [][reply'.op = "confirm" =>
          LET c == reply'.order_id
          IN  IF order[c].status = PENDING /\ Len(order[c].items) >= 1
              THEN /\ reply'.raised = NoError
                   /\ order'[c] = [order[c] EXCEPT !.status = CONFIRMED]
              ELSE /\ reply'.raised.type = "ValueError"
                   /\ order'[c] = order[c]
      ]_vars

\* A second confirm() on a confirmed order has been refused.
C13_Witness ==
    /\ reply.op = "confirm"
    /\ reply.raised # NoError
    /\ order[reply.order_id].status = CONFIRMED
    /\ Len(order[reply.order_id].items) >= 1

\* ---- C14
\* C14: cancel() succeeds from PENDING and from CONFIRMED and sets the status
\* to CANCELLED; on a DELIVERED or a CANCELLED order it raises and the order
\* is left as it was.
C14_Cancel ==
    [][reply'.op = "cancel" =>
          LET c == reply'.order_id
          IN  IF order[c].status \in {PENDING, CONFIRMED}
              THEN /\ reply'.raised = NoError
                   /\ order'[c] = [order[c] EXCEPT !.status = CANCELLED]
              ELSE /\ order[c].status \in {DELIVERED, CANCELLED}
                   /\ reply'.raised.type = "ValueError"
                   /\ order'[c] = order[c]
      ]_vars

\* A second cancel() on a cancelled order has been refused.
C14_Witness ==
    /\ reply.op = "cancel"
    /\ reply.raised # NoError
    /\ reply.raised.text = "Order already cancelled"
    /\ order[reply.order_id].status = CANCELLED

\* ---- C15
\* C15: with the order repository the service is wired with, cancel_order(id)
\* does not raise; for an id not in the Order Store it returns False and
\* changes nothing; for the id of a stored order it returns True and removes
\* the order, so that get_order_by_id(id) finds nothing afterwards.
C15_CancelOrder ==
    [][(reply'.op = "cancel_order" /\ order_repo = WiredOrderRepo) =>
          LET id == reply'.order_id
          IN  /\ reply'.raised = NoError
              /\ id \notin DOMAIN _orders =>
                     /\ reply'.result = <<FALSE>>
                     /\ _orders' = _orders
                     /\ _products' = _products
                     /\ objs' = objs
              /\ id \in DOMAIN _orders =>
                     /\ reply'.result = <<TRUE>>
                     /\ order_get_by_id(_orders', id) = <<>>
                     /\ \A k \in DOMAIN _orders \ {id} :
                            k \in DOMAIN _orders' /\ _orders'[k] = _orders[k]]_vars

\* ---- C16
\* C16: no cancel_order call and no confirm() / cancel() of an order changes
\* a product's stock or the catalog; what create_order has deducted stays
\* deducted, whatever became of the order: every product's stock is its
\* seeded stock less the quantities of the lines the calls have added.
C16_NoRestock ==
    /\ [](\A p \in SeededIds :
             Stock(p) = SeedStock(p)
                          - SumOver([c \in CallIds |-> QtyFor(order[c].items, p)], NumCalls))
    /\ [][reply'.op \in {"cancel_order", "confirm", "cancel"} =>
             (objs' = objs /\ _products' = _products)]_vars

\* One order has been deleted from the store and another has been cancelled;
\* both had reserved stock.
C16_Witness ==
    \E c, d \in CallIds :
        /\ pc[c] = "done" /\ c \notin DOMAIN _orders
        /\ order[c].items # <<>>
        /\ d \in DOMAIN _orders
        /\ _orders[d].status = CANCELLED
        /\ _orders[d].items # <<>>
        /\ \E p \in SeededIds : Stock(p) < SeedStock(p)

\* ---- C17
\* C17: get_order_by_id(id) never raises; it returns the stored order when id
\* is in the Order Store and None when it is not, and it changes neither the
\* Order Store nor the Catalog Store.
C17_GetOrderById ==
    [][reply'.op = "get_order_by_id" =>
          LET id == reply'.order_id
          IN  /\ reply'.raised = NoError
              /\ id \in DOMAIN _orders => reply'.result = <<_orders[id]>>
              /\ id \notin DOMAIN _orders => reply'.result = <<>>
              /\ _orders' = _orders
              /\ _products' = _products
              /\ objs' = objs]_vars

\* An order with a line has been looked up and found while another id, of an
\* order that failed or was deleted, is not in the store.
C17_Witness ==
    /\ reply.op = "get_order_by_id"
    /\ reply.result # <<>>
    /\ Len(reply.result[1].items) > 0
    /\ \E c \in CallIds : pc[c] \in {"done", "failed"} /\ c \notin DOMAIN _orders

\* ---- C18
\* C18: with the order repository the service is wired with, get_all_orders()
\* does not raise and returns exactly the orders of the Order Store (those
\* created successfully and not deleted since), each once.
C18_GetAllOrders ==
    [][(reply'.op = "get_all_orders" /\ order_repo = WiredOrderRepo) =>
          /\ reply'.raised = NoError
          /\ Len(reply'.result) = Cardinality(DOMAIN _orders)
          /\ {reply'.result[i] : i \in 1..Len(reply'.result)}
                 = {_orders[id] : id \in DOMAIN _orders}]_vars

\* ---- C19
\* C19: the lines of a persisted order are snapshots: no later step, be it a
\* put of the product under a new name or price or a further reservation of
\* its stock, changes the name, price, quantity or subtotal of a line of the
\* order, or the order's total.
C19_LinesAreSnapshots ==
    [][\A id \in DOMAIN _orders :
          /\ id \in DOMAIN _orders'
          /\ Len(_orders'[id].items) = Len(_orders[id].items)
          /\ \A i \in 1..Len(_orders[id].items) :
                 LET was == _orders[id].items[i]
                     is == _orders'[id].items[i]
                 IN  /\ is.product_name = was.product_name
                     /\ is.price = was.price
                     /\ is.quantity = was.quantity
                     /\ subtotal(is) = subtotal(was)
          /\ calculate_total(_orders'[id]) = calculate_total(_orders[id])]_vars

\* A persisted order holds a line whose product has since been renamed and
\* repriced in the catalog and then reserved again by a later order.
C19_Witness ==
    \E c, d \in CallIds :
        /\ c < d
        /\ c \in DOMAIN _orders /\ d \in DOMAIN _orders
        /\ \E i \in 1..Len(_orders[c].items), j \in 1..Len(_orders[d].items) :
               LET line == _orders[c].items[i]
                   later == _orders[d].items[j]
                   now == objs[_products[line.product_id]]
               IN  /\ later.product_id = line.product_id
                   /\ line.product_name # now.name
                   /\ line.price # now.price
                   /\ later.product_name = now.name
                   /\ later.price = now.price

\* ---- C20
AllOrders == {order[c] : c \in CallIds} \cup {_orders[id] : id \in DOMAIN _orders}

\* C20: add_item with quantity <= 0 or price < 0 raises and leaves the
\* order's lines as they were, and in every state every line of every order
\* has quantity > 0 and price >= 0.
C20_LineItemsValid ==
    /\ [](\A o \in AllOrders : \A i \in 1..Len(o.items) :
              o.items[i].quantity > 0 /\ o.items[i].price >= 0)
    /\ [][(reply'.op = "add_item" /\ (reply'.quantity <= 0 \/ reply'.price < 0)) =>
              /\ reply'.raised.type = "ValueError"
              /\ order'[reply'.order_id] = order[reply'.order_id]
         ]_vars

\* add_item with a negative price has been refused on an order that
\* already has a line.
C20_Witness ==
    /\ reply.op = "add_item"
    /\ reply.price < 0
    /\ reply.quantity > 0
    /\ reply.raised # NoError
    /\ Len(order[reply.order_id].items) = 1

\* ---- C21
\* C21: release_stock(q) with q > 0 succeeds whatever the stock and sets the
\* stock to stock + q; with q <= 0 it fails with the invalid-quantity error
\* ("Quantity must be positive") and changes no stock; and a reserve_stock(q)
\* that succeeds, followed by release_stock(q), gives the stock it began with.
C21_ReleaseStock ==
    /\ [](\A ref \in DOMAIN objs : \A q \in UnitQuantities :
             LET reserved == reserve_stock(objs[ref], q)
             IN  reserved.raised = NoError =>
                     /\ release_stock(reserved.product, q).raised = NoError
                     /\ release_stock(reserved.product, q).product = objs[ref])
    /\ [][reply'.op = "release_stock" =>
             LET ref == reply'.ref
                 q == reply'.quantity
             IN  /\ q > 0 =>
                        /\ reply'.raised = NoError
                        /\ objs'[ref].stock = objs[ref].stock + q
                        /\ \A r \in DOMAIN objs \ {ref} : objs'[r] = objs[r]
                 /\ q <= 0 =>
                        /\ reply'.raised =
                               [type |-> "ValueError", text |-> "Quantity must be positive"]
                        /\ objs' = objs
         ]_vars

\* release_stock(2) has raised a product's stock above what it was seeded with.
C21_Witness ==
    /\ reply.op = "release_stock"
    /\ reply.quantity = 2
    /\ reply.raised = NoError
    /\ objs[reply.ref].stock > SeedProduct(reply.ref).stock

\* ---- C22
\* C22: over any sequence of confirm() and cancel() calls on an order, the
\* status changes only PENDING -> CONFIRMED, PENDING -> CANCELLED or
\* CONFIRMED -> CANCELLED: once CANCELLED it stays CANCELLED, once CONFIRMED
\* it is never PENDING again, and it is never DELIVERED.
C22_StatusTransitions ==
    /\ [][\A c \in UnitOrders :
             order'[c].status # order[c].status =>
                 <<order[c].status, order'[c].status>> \in
                     {<<PENDING, CONFIRMED>>, <<PENDING, CANCELLED>>,
                      <<CONFIRMED, CANCELLED>>}]_vars
    /\ \A c \in UnitOrders :
           /\ [](order[c].status = CANCELLED => [](order[c].status = CANCELLED))
           /\ [](order[c].status = CONFIRMED => [](order[c].status # PENDING))
           /\ [](order[c].status # DELIVERED)

\* confirm() has been tried on a cancelled order that has a line, and refused.
C22_Witness ==
    /\ reply.op = "confirm"
    /\ reply.raised # NoError
    /\ order[reply.order_id].status = CANCELLED
    /\ order[reply.order_id].items # <<>>

\* ---- C23
\* The quantity of product p in the items whose iteration the call has
\* completed, persist step included.
PersistedQty(c, p) ==
    QtyFor(SubSeq(items[c], 1, IF idx[c] = 0 THEN 0 ELSE idx[c] - 1), p)

\* C23: in create_order each item goes through lookup, reserve_stock, persist
\* product, append line, in this order: a catalog lookup shows a reservation
\* only once its product has been persisted (every product's stock is its
\* seeded stock less the quantities of the items whose persist step is done),
\* and while a call has reserved an item and not yet persisted the product,
\* the item's line is not yet in the order.
C23_PersistBeforeAppend ==
    /\ \A p \in SeededIds :
           Stock(p) = SeedStock(p)
                        - SumOver([c \in CallIds |-> PersistedQty(c, p)], NumCalls)
    /\ \A c \in CallIds :
           pc[c] = "save" => Len(order[c].items) = idx[c] - 1

\* ---- C24
\* What has been taken from the stock of product p since start-up.
Deducted(p) == SeedStock(p) - Stock(p)

\* The quantity of product p in the lines of the orders now in the Order Store.
StoredQty(p) ==
    SumOver([c \in CallIds |->
                IF c \in DOMAIN _orders THEN QtyFor(_orders[c].items, p) ELSE 0], NumCalls)

\* No call has failed after it had reserved an earlier item.
NoPartialFailure == \A c \in CallIds : pc[c] = "failed" => order[c].items = <<>>

\* No order has been deleted: what a call has stored is still in the store.
NoneDeleted == \A c \in CallIds : pc[c] = "done" => c \in DOMAIN _orders

\* A call that succeeded asked, over all its items of product p and together
\* with what the other calls reserved of p, for no more than the stock.
WithinStock(p) ==
    LET reserved == SumOver([d \in CallIds |-> QtyFor(order[d].items, p)], NumCalls)
    IN  \A c \in CallIds :
            pc[c] = "done" =>
                QtyFor(items[c], p) + (reserved - QtyFor(order[c].items, p)) <= SeedStock(p)

\* C24 as stated: in every reachable state, for each product, the amount
\* deducted is >= the quantity in the stored orders' lines, with equality
\* when no call has failed after reserving an earlier item and no order has
\* been deleted; and a call that names a product in several items succeeds
\* only if the quantities together do not exceed the stock.
C24_AccountingAsStated ==
    \A p \in SeededIds :
        LET deducted == Deducted(p)
            stored == StoredQty(p)
        IN  /\ deducted >= stored
            /\ (NoPartialFailure /\ NoneDeleted) => deducted = stored
            /\ WithinStock(p)

\* C24, amended: the equality holds when, besides, no call that is still
\* running has reserved an item: every call that has not succeeded, failed
\* or running, has reserved nothing.
C24_Accounting ==
    \A p \in SeededIds :
        LET deducted == Deducted(p)
            stored == StoredQty(p)
        IN  /\ deducted >= stored
            /\ ((\A c \in CallIds : pc[c] # "done" => order[c].items = <<>>) /\ NoneDeleted)
                   => deducted = stored
            /\ WithinStock(p)

\* An order of two items of one product, taking its whole stock between them,
\* is in the store; a cancel_order of another id has removed nothing, and
\* what was deducted is what the stored lines carry.
C24_Witness ==
    \E c \in CallIds :
        /\ c \in DOMAIN _orders
        /\ Len(items[c]) = 2
        /\ items[c][1].product_id = items[c][2].product_id
        /\ Stock(items[c][1].product_id) = 0
        /\ \A d \in CallIds \ {c} : order[d].items = <<>>
        /\ reply.op = "cancel_order"
        /\ reply.result = <<FALSE>>
        /\ NoneDeleted

====
